---- MODULE Spec2Model ----
(***************************************************************************)
(* A model of dcos/api/marathon.py: the Marathon HTTP client.              *)
(*                                                                         *)
(* Every public method of Client builds a URL, issues one blocking HTTP    *)
(* request with the requests library and translates the response.  A call  *)
(* is modelled in two steps, split where the caller blocks on the network: *)
(* the step named after the method runs the code up to and including the   *)
(* requests.get/post/put/delete call, and the step <method>_response runs  *)
(* the rest of the method on the response the server sent.  Between the    *)
(* two steps other callers may run.                                        *)
(*                                                                         *)
(* Python values are tagged records [type, v]; a Python str that the code  *)
(* inspects character by character (an application id) is a sequence of    *)
(* one-character strings, every other str is a TLA+ string.                *)
(***************************************************************************)
EXTENDS Integers, Sequences, FiniteSets, TLC

VARIABLES
    client,     \* the Client object: _url_pattern, _host, _port
    pc,         \* per caller: the method whose HTTP request is in flight, "idle" or "done"
    frame,      \* per caller: the method called and its arguments
    requests,   \* per caller: the HTTP requests issued by the current call, in order
    response,   \* per caller: the response the current call received
    result,     \* per caller: how the current call ended (returned value / raised exception)
    log,        \* per caller: the records the current call handed to the logger
    raw_id,     \* input of the stand-alone run of _sanitize_app_id
    sanitized   \* output of the stand-alone run of _sanitize_app_id

vars == <<client, pc, frame, requests, response, result, log, raw_id, sanitized>>

callVars == <<client, pc, frame, requests, response, result, log>>

(* Bounds *)

NumCallers == 2
MaxLen == 3
MaxInstances == 2
MaxVersions == 3
MaxCount == 4

Callers == 1..NumCallers

(* Python values *)

None == [type |-> "NoneType", v |-> <<>>]
PyStr(s) == [type |-> "str", v |-> s]
PyInt(n) == [type |-> "int", v |-> n]
PyBool(b) == [type |-> "bool", v |-> b]
PyList(s) == [type |-> "list", v |-> s]
PyDict(f) == [type |-> "dict", v |-> f]
PyTuple(a, b) == [type |-> "tuple", v |-> <<a, b>>]
PyFile(content) == [type |-> "file", v |-> content]

\* A response body that is not JSON text.
NotJson == [type |-> "text", v |-> <<>>]

\* A one-entry dict {k: x}.
Dict1(k, x) == PyDict([key \in {k} |-> x])

\* Python truthiness of the values the code tests with `if`.
Truthy(x) ==
    CASE x.type = "NoneType" -> FALSE
      [] x.type = "bool" -> x.v
      [] x.type = "int" -> x.v # 0
      [] OTHER -> TRUE

\* str(x) for the values the code formats.
str(x) ==
    CASE x.type = "str" -> x.v
      [] x.type = "int" -> ToString(x.v)
      [] x.type = "bool" -> IF x.v THEN "True" ELSE "False"
      [] OTHER -> "None"

\* The characters of a char-sequence string joined into one string.
RECURSIVE Join(_)
Join(s) == IF s = <<>> THEN "" ELSE Head(s) \o Join(Tail(s))

Min(a, b) == IF a <= b THEN a ELSE b
Max(a, b) == IF a >= b THEN a ELSE b

\* How a piece of code ends: it returns a value or raises an exception;
\* `log` holds the records it handed to the logger on the way.
Return(value, records) ==
    [kind |-> "return", value |-> value, exc |-> "", log |-> records]
Raise(exc, records) ==
    [kind |-> "raise", value |-> None, exc |-> exc, log |-> records]
Pending == [kind |-> "pending", value |-> None, exc |-> "", log |-> <<>>]

LogRecord(level, msg) == [level |-> level, msg |-> msg]


(* urllib: quote and urlencode *)

\* Characters quote() never escapes (letters, digits and "_.-"): the ones
\* that can occur in the ids drawn here.
AlwaysSafe == {"a", "b", "v", "0", "1", "2", "_", ".", "-"}

\* "%XX" for the UTF-8 byte of a character quote() escapes.
PercentEncode(c) ==
    CASE c = " " -> <<"%", "2", "0">>
      [] c = "%" -> <<"%", "2", "5">>
      [] c = "?" -> <<"%", "3", "F">>
      [] c = "/" -> <<"%", "2", "F">>
      [] c = "=" -> <<"%", "3", "D">>

\* quote(string, safe): every character outside AlwaysSafe and `safe` becomes "%XX".
RECURSIVE quote(_, _)
quote(string, safe) ==
    IF string = <<>> THEN <<>>
    ELSE (IF Head(string) \in AlwaysSafe \cup safe
          THEN <<Head(string)>>
          ELSE PercentEncode(Head(string))) \o quote(Tail(string), safe)

\* s.lstrip(chars), s.rstrip(chars) and s.strip(chars).
RECURSIVE lstrip(_, _)
lstrip(s, chars) ==
    IF s # <<>> /\ Head(s) \in chars THEN lstrip(Tail(s), chars) ELSE s

RECURSIVE rstrip(_, _)
rstrip(s, chars) ==
    IF s # <<>> /\ s[Len(s)] \in chars
    THEN rstrip(SubSeq(s, 1, Len(s) - 1), chars)
    ELSE s

strip(s, chars) == rstrip(lstrip(s, chars), chars)

\* urlencode(query) of a dict: "k=v" for its keys, joined by "&"; a value is
\* converted with str() before it is quoted.  The code only ever passes the
\* one-key dict {'force': True}.
urlencode(query) ==
    LET k == CHOOSE key \in DOMAIN query.v : TRUE
    IN  k \o "=" \o str(query.v[k])

(* Client *)

Host == "marathon"
Port == 8080

\* Client.__init__: the pattern "http://{host}:{port}/{path}" is kept as its
\* literal pieces and replacement fields.
Client(host, port) ==
    [url_pattern |-> <<"http://", "{host}", ":", "{port}", "/", "{path}">>,
     host |-> host,
     port |-> port]

\* pattern.format(host=..., port=..., path=...)
RECURSIVE format(_, _, _, _)
format(pattern, host, port, path) ==
    IF pattern = <<>> THEN ""
    ELSE (CASE Head(pattern) = "{host}" -> host
            [] Head(pattern) = "{port}" -> ToString(port)
            [] Head(pattern) = "{path}" -> path
            [] OTHER -> Head(pattern))
         \o format(Tail(pattern), host, port, path)

_create_url(self, path, query_params) ==
    LET url == format(self.url_pattern, self.host, self.port, path)
    IN  IF query_params # None
        THEN url \o "?" \o urlencode(query_params)
        ELSE url

\* Slip: only the leading slashes are stripped.
_sanitize_app_id_lstrip(app_id) == quote(<<"/">> \o lstrip(app_id, {"/"}), {"/"})

_sanitize_app_id(app_id) == quote(<<"/">> \o strip(app_id, {"/"}), {"/"})


(* requests.Response and json *)

Response(status_code, body) == [status_code |-> status_code, body |-> body]
NoResponse == [status_code |-> 0, body |-> NotJson]

\* response.json(): the parsed body, or ValueError when the body is not JSON.
json(resp) ==
    IF resp.body.type = "text" THEN Raise("ValueError", <<>>)
    ELSE Return(resp.body, <<>>)

\* x[key] with a string key.
Subscript(x, key) ==
    IF x.type # "dict" THEN Raise("TypeError", <<>>)
    ELSE IF key \notin DOMAIN x.v THEN Raise("KeyError", <<>>)
    ELSE Return(x.v[key], <<>>)

\* x.get(key)
Get(x, key) ==
    IF x.type # "dict" THEN Raise("AttributeError", <<>>)
    ELSE IF key \notin DOMAIN x.v THEN Return(None, <<>>)
    ELSE Return(x.v[key], <<>>)

\* L[:n]
SliceTo(L, n) ==
    IF n >= 0 THEN SubSeq(L, 1, Min(n, Len(L)))
    ELSE SubSeq(L, 1, Max(Len(L) + n, 0))

\* x[:n] for the parsed `versions` field.
Slice(x, n) ==
    IF x.type = "list" THEN Return(PyList(SliceTo(x.v, n)), <<>>)
    ELSE Raise("TypeError", <<>>)

(* Error *)

\* marathon.Error(message); Error.error() returns the message.
Error(message) == [type |-> "Error", v |-> message]
error(e) == e.v

\* Slip: the remote message is passed on without the "Error: " prefix.
_response_to_error_bare(resp) ==
    LET body == json(resp) IN
    IF body.kind = "raise" THEN body
    ELSE LET message == Get(body.value, "message") IN
         IF message.kind = "raise" THEN message
         ELSE IF message.value = None
         THEN Return(Error("Unknown error from Marathon"),
                     <<LogRecord("error", "Marathon server did not return a message: %s")>>)
         ELSE Return(Error(str(message.value)), <<>>)

_response_to_error(resp) ==
    LET body == json(resp) IN
    IF body.kind = "raise" THEN body
    ELSE LET message == Get(body.value, "message") IN
         IF message.kind = "raise" THEN message
         ELSE IF message.value = None
         THEN Return(Error("Unknown error from Marathon"),
                     <<LogRecord("error", "Marathon server did not return a message: %s")>>)
         ELSE Return(Error("Error: " \o str(message.value)), <<>>)

\* `return (None, self._response_to_error(response))`
ErrorPair(resp) ==
    LET e == _response_to_error(resp) IN
    IF e.kind = "raise" THEN e ELSE Return(PyTuple(None, e.value), e.log)

\* `return (<expression>, None)` where evaluating the expression may raise.
ValuePair(x) ==
    IF x.kind = "raise" THEN x ELSE Return(PyTuple(x.value, None), x.log)

(* HTTP requests *)

Request(method, url, body) == [method |-> method, url |-> url, json |-> body]


\* The records logged so far, then those of the rest of the code.
WithLog(records, outcome) == [outcome EXCEPT !.log = records \o @]

(* Calls: a caller enters a method, blocks on its HTTP request, and the
   method returns or raises once the response is there. *)

\* A caller may enter a method when it is in no other call.
Free(c) == pc[c] \in {"idle", "done"}

\* The method `fn` of caller c issues `request` and blocks on it.
Begin(c, fn, call, request, records) ==
    /\ pc' = [pc EXCEPT ![c] = fn]
    /\ frame' = [frame EXCEPT ![c] = call]
    /\ requests' = [requests EXCEPT ![c] = <<request>>]
    /\ response' = [response EXCEPT ![c] = NoResponse]
    /\ result' = [result EXCEPT ![c] = Pending]
    /\ log' = [log EXCEPT ![c] = records]
    /\ UNCHANGED <<client, raw_id, sanitized>>

\* The call of caller c ends before any request was issued.
Abort(c, call, outcome) ==
    /\ pc' = [pc EXCEPT ![c] = "done"]
    /\ frame' = [frame EXCEPT ![c] = call]
    /\ requests' = [requests EXCEPT ![c] = <<>>]
    /\ response' = [response EXCEPT ![c] = NoResponse]
    /\ result' = [result EXCEPT ![c] = [outcome EXCEPT !.log = <<>>]]
    /\ log' = [log EXCEPT ![c] = outcome.log]
    /\ UNCHANGED <<client, raw_id, sanitized>>

\* The request of caller c is answered with `resp`, and the rest of the
\* method ends as `outcome`.
End(c, resp, outcome) ==
    /\ pc' = [pc EXCEPT ![c] = "done"]
    /\ response' = [response EXCEPT ![c] = resp]
    /\ result' = [result EXCEPT ![c] = [outcome EXCEPT !.log = <<>>]]
    /\ log' = [log EXCEPT ![c] = @ \o outcome.log]
    /\ UNCHANGED <<client, frame, requests, raw_id, sanitized>>

(* get_app *)

get_app_request(self, app_id, version) ==
    LET id == _sanitize_app_id(app_id)
        url == IF version = None
               THEN _create_url(self, "v2/apps" \o Join(id), None)
               ELSE _create_url(self,
                        "v2/apps" \o Join(id) \o "/versions/" \o str(version),
                        None)
    IN  Request("GET", url, None)

\* Slip: the app field is unwrapped whether or not a version was given.
get_app_return_unwrap(version, resp) ==
    LET body == json(resp) IN
    IF body.kind = "raise" THEN body
    ELSE WithLog(<<LogRecord("info", "Got (%r): %r")>>,
            IF resp.status_code = 200
            THEN ValuePair(Subscript(body.value, "app"))
            ELSE ErrorPair(resp))

get_app_return(version, resp) ==
    LET body == json(resp) IN   \* an argument of logger.info('Got (%r): %r', ...)
    IF body.kind = "raise" THEN body
    ELSE WithLog(<<LogRecord("info", "Got (%r): %r")>>,
            IF resp.status_code = 200
            THEN IF version = None
                 THEN ValuePair(Subscript(body.value, "app"))
                 ELSE ValuePair(body)
            ELSE ErrorPair(resp))

get_app(c, app_id, version) ==
    /\ Free(c)
    /\ Begin(c, "get_app",
          [op |-> "get_app", app_id |-> app_id, version |-> version],
          get_app_request(client, app_id, version),
          <<LogRecord("info", "Getting %r")>>)

get_app_response(c, resp) ==
    /\ pc[c] = "get_app"
    /\ End(c, resp, get_app_return(frame[c].version, resp))

(* get_app_versions *)

get_app_versions_request(self, app_id) ==
    LET id == _sanitize_app_id(app_id)
    IN  Request("GET",
                _create_url(self, "v2/apps" \o Join(id) \o "/versions", None),
                None)

\* Slip: max_count is ignored and the whole list returned.
get_app_versions_return_all(max_count, resp) ==
    LET body == json(resp) IN
    IF body.kind = "raise" THEN body
    ELSE WithLog(<<LogRecord("info", "Got (%r): %r")>>,
            IF resp.status_code = 200
            THEN ValuePair(Subscript(body.value, "versions"))
            ELSE ErrorPair(resp))

get_app_versions_return(max_count, resp) ==
    LET body == json(resp) IN   \* an argument of logger.info('Got (%r): %r', ...)
    IF body.kind = "raise" THEN body
    ELSE WithLog(<<LogRecord("info", "Got (%r): %r")>>,
            IF resp.status_code = 200
            THEN LET versions == Subscript(body.value, "versions") IN
                 IF max_count = None
                 THEN ValuePair(versions)
                 ELSE IF versions.kind = "raise" THEN versions
                 ELSE ValuePair(Slice(versions.value, max_count.v))
            ELSE ErrorPair(resp))

get_app_versions(c, app_id, max_count) ==
    /\ Free(c)
    /\ Begin(c, "get_app_versions",
          [op |-> "get_app_versions", app_id |-> app_id, max_count |-> max_count],
          get_app_versions_request(client, app_id),
          <<LogRecord("info", "Getting %r")>>)

get_app_versions_response(c, resp) ==
    /\ pc[c] = "get_app_versions"
    /\ End(c, resp,
        get_app_versions_return(frame[c].max_count, resp))

(* get_apps *)

get_apps_request(self) == Request("GET", _create_url(self, "v2/apps", None), None)

get_apps_return(resp) ==
    IF resp.status_code = 200
    THEN LET body == json(resp) IN
         IF body.kind = "raise" THEN body
         ELSE ValuePair(Subscript(body.value, "apps"))
    ELSE ErrorPair(resp)

get_apps(c) ==
    /\ Free(c)
    /\ Begin(c, "get_apps", [op |-> "get_apps"], get_apps_request(client), <<>>)

get_apps_response(c, resp) ==
    /\ pc[c] = "get_apps"
    /\ End(c, resp, get_apps_return(resp))


(* add_app *)

\* `json.load(app_resource)` when the resource has a read attribute, else
\* the resource itself.
app_json(app_resource) ==
    IF app_resource.type = "file"
    THEN IF app_resource.v.type = "text"
         THEN Raise("ValueError", <<>>)
         ELSE Return(app_resource.v, <<>>)
    ELSE Return(app_resource, <<>>)

add_app_request(self, body) ==
    Request("POST", _create_url(self, "v2/apps", None), body)

add_app_return(resp) ==
    IF resp.status_code = 201
    THEN Return(None, <<>>)
    ELSE _response_to_error(resp)

add_app(c, app_resource) ==
    LET call == [op |-> "add_app", app_resource |-> app_resource]
        body == app_json(app_resource)
    IN  /\ Free(c)
        /\ IF body.kind = "raise"
           THEN Abort(c, call, body)
           ELSE Begin(c, "add_app", call, add_app_request(client, body.value),
                      <<LogRecord("info", "Posting %r to %r")>>)

add_app_response(c, resp) ==
    /\ pc[c] = "add_app"
    /\ End(c, resp, add_app_return(resp))

(* scale_app and suspend_app *)

\* The `force` handling shared by scale_app and remove_app:
\* `if force is None: force = False`, `params = None`,
\* `if force: params = {'force': True}`.
force_params(force) ==
    LET f == IF force = None THEN PyBool(FALSE) ELSE force
    IN  IF Truthy(f) THEN Dict1("force", PyBool(TRUE)) ELSE None

scale_app_request(self, app_id, instances, force) ==
    LET params == force_params(force)
        id == _sanitize_app_id(app_id)
        url == _create_url(self, "v2/apps" \o Join(id), params)
    IN  Request("PUT", url, Dict1("instances", PyInt(instances.v)))

scale_app_return(resp) ==
    IF resp.status_code = 200
    THEN LET body == json(resp) IN
         IF body.kind = "raise" THEN body
         ELSE ValuePair(Subscript(body.value, "deploymentId"))
    ELSE ErrorPair(resp)

\* Slip: the formatted URL is stored back into self._url_pattern.
scale_app_stores_url(c, app_id, instances, force) ==
    LET request == scale_app_request(client, app_id, instances, force) IN
    /\ Free(c)
    /\ pc' = [pc EXCEPT ![c] = "scale_app"]
    /\ frame' = [frame EXCEPT ![c] =
                    [op |-> "scale_app", app_id |-> app_id,
                     instances |-> instances, force |-> force]]
    /\ requests' = [requests EXCEPT ![c] = <<request>>]
    /\ response' = [response EXCEPT ![c] = NoResponse]
    /\ result' = [result EXCEPT ![c] = Pending]
    /\ log' = [log EXCEPT ![c] = <<>>]
    /\ client' = [client EXCEPT !.url_pattern = <<request.url>>]
    /\ UNCHANGED <<raw_id, sanitized>>

scale_app(c, app_id, instances, force) ==
    /\ Free(c)
    /\ Begin(c, "scale_app",
          [op |-> "scale_app", app_id |-> app_id, instances |-> instances,
           force |-> force],
          scale_app_request(client, app_id, instances, force),
          <<>>)

\* Slip: force is not passed on to scale_app.
suspend_app_unforced(c, app_id, force) ==
    /\ Free(c)
    /\ Begin(c, "scale_app",
          [op |-> "suspend_app", app_id |-> app_id, force |-> force],
          scale_app_request(client, app_id, PyInt(0), None),
          <<>>)

\* suspend_app returns self.scale_app(app_id, 0, force): the caller blocks
\* inside scale_app.
suspend_app(c, app_id, force) ==
    /\ Free(c)
    /\ Begin(c, "scale_app",
          [op |-> "suspend_app", app_id |-> app_id, force |-> force],
          scale_app_request(client, app_id, PyInt(0), force),
          <<>>)

scale_app_response(c, resp) ==
    /\ pc[c] = "scale_app"
    /\ End(c, resp, scale_app_return(resp))

(* remove_app *)

remove_app_request(self, app_id, force) ==
    LET params == force_params(force)
        id == _sanitize_app_id(app_id)
        url == _create_url(self, "v2/apps" \o Join(id), params)
    IN  Request("DELETE", url, None)

remove_app_return(resp) ==
    IF resp.status_code = 200
    THEN Return(None, <<>>)
    ELSE _response_to_error(resp)

remove_app(c, app_id, force) ==
    /\ Free(c)
    /\ Begin(c, "remove_app",
          [op |-> "remove_app", app_id |-> app_id, force |-> force],
          remove_app_request(client, app_id, force),
          <<>>)

remove_app_response(c, resp) ==
    /\ pc[c] = "remove_app"
    /\ End(c, resp, remove_app_return(resp))

(* The stand-alone run of _sanitize_app_id *)

sanitize_app_id ==
    /\ sanitized = None
    /\ sanitized' = PyStr(_sanitize_app_id(raw_id))
    /\ UNCHANGED <<callVars, raw_id>>

(* Inputs *)

\* Strings over `alphabet` of length at most n.
RECURSIVE StringsUpTo(_, _)
StringsUpTo(alphabet, n) ==
    IF n = 0 THEN {<<>>}
    ELSE LET shorter == StringsUpTo(alphabet, n - 1)
         IN  shorter \cup {<<ch>> \o t : ch \in alphabet, t \in {u \in shorter : Len(u) = n - 1}}

IdAlphabet == {"/", "a", " ", "?", "%"}
RawIds == StringsUpTo(IdAlphabet, MaxLen)

AppIds == {<<"a">>, <<"/", "a", "/">>, <<"a", " ", "b">>, <<>>}
Versions == {None, PyStr("2015-02-11T09:31:50.021Z")}
MaxCounts == {None} \cup {PyInt(n) : n \in (0 - MaxCount)..MaxCount}
Forces == {None, PyBool(FALSE), PyBool(TRUE)}
Instances == {PyInt(n) : n \in 0..MaxInstances}

AppDescriptor == ("id" :> PyStr("/a")) @@ ("instances" :> PyInt(1))
AppResources == {PyDict(AppDescriptor), PyFile(PyDict(AppDescriptor)), PyFile(NotJson)}

\* The version list ["v<n>", ..., "v1"].
VersionList(n) == [i \in 1..n |-> PyStr("v" \o ToString(n + 1 - i))]

StatusCodes == {200, 201, 404, 500}
Bodies ==
    {NotJson,
     PyList(<<>>),
     PyDict(<<>>),
     Dict1("message", PyStr("App not found")),
     Dict1("message", None),
     Dict1("app", PyDict(AppDescriptor)),
     Dict1("app", None),
     PyDict(AppDescriptor),
     Dict1("apps", PyList(<<>>)),
     Dict1("apps", PyList(<<PyDict(AppDescriptor)>>)),
     Dict1("deploymentId", PyStr("5ed4c0c5")),
     PyDict(("deploymentId" :> PyStr("5ed4c0c5")) @@ ("message" :> PyStr("ok")))}
    \cup {Dict1("versions", PyList(VersionList(n))) : n \in 0..MaxVersions}
Responses == {Response(st, b) : st \in StatusCodes, b \in Bodies}

(* Specifications *)

InitCalls ==
    /\ client = Client(Host, Port)
    /\ pc = [c \in Callers |-> "idle"]
    /\ frame = [c \in Callers |-> [op |-> "none"]]
    /\ requests = [c \in Callers |-> <<>>]
    /\ response = [c \in Callers |-> NoResponse]
    /\ result = [c \in Callers |-> Pending]
    /\ log = [c \in Callers |-> <<>>]

Init ==
    /\ InitCalls
    /\ raw_id = <<>>
    /\ sanitized = None

\* One caller, every argument and every response.
Next ==
    \/ \E app_id \in AppIds, version \in Versions : get_app(1, app_id, version)
    \/ \E resp \in Responses : get_app_response(1, resp)
    \/ \E app_id \in AppIds, max_count \in MaxCounts :
            get_app_versions(1, app_id, max_count)
    \/ \E resp \in Responses : get_app_versions_response(1, resp)
    \/ get_apps(1)
    \/ \E resp \in Responses : get_apps_response(1, resp)
    \/ \E app_resource \in AppResources : add_app(1, app_resource)
    \/ \E resp \in Responses : add_app_response(1, resp)
    \/ \E app_id \in AppIds, instances \in Instances, force \in Forces :
            scale_app(1, app_id, instances, force)
    \/ \E app_id \in AppIds, force \in Forces : suspend_app(1, app_id, force)
    \/ \E resp \in Responses : scale_app_response(1, resp)
    \/ \E app_id \in AppIds, force \in Forces : remove_app(1, app_id, force)
    \/ \E resp \in Responses : remove_app_response(1, resp)

Spec == Init /\ [][Next]_vars

\* _sanitize_app_id alone, on every raw id up to MaxLen characters.
InitSanitize ==
    /\ InitCalls
    /\ raw_id \in RawIds
    /\ sanitized = None

NextSanitize == sanitize_app_id

SpecSanitize == InitSanitize /\ [][NextSanitize]_vars


\* Concurrent callers sharing one Client: every method, with a response per
\* way a call can end (a value, an error value, an exception).
ConcAppId == <<"/", "a", "/">>
ConcBody ==
    PyDict(("app" :> PyDict(AppDescriptor))
           @@ ("versions" :> PyList(VersionList(2)))
           @@ ("apps" :> PyList(<<PyDict(AppDescriptor)>>))
           @@ ("deploymentId" :> PyStr("5ed4c0c5")))
ConcResponses ==
    {Response(200, ConcBody),
     Response(404, Dict1("message", PyStr("App not found"))),
     Response(500, NotJson)}

NextConcurrent ==
    \E c \in Callers :
        \/ \E version \in Versions : get_app(c, ConcAppId, version)
        \/ \E resp \in ConcResponses : get_app_response(c, resp)
        \/ get_app_versions(c, ConcAppId, PyInt(1))
        \/ \E resp \in ConcResponses : get_app_versions_response(c, resp)
        \/ get_apps(c)
        \/ \E resp \in ConcResponses : get_apps_response(c, resp)
        \/ add_app(c, PyDict(AppDescriptor))
        \/ \E resp \in ConcResponses : add_app_response(c, resp)
        \/ scale_app(c, ConcAppId, PyInt(1), PyBool(TRUE))
        \/ suspend_app(c, <<"a">>, None)
        \/ \E resp \in ConcResponses : scale_app_response(c, resp)
        \/ remove_app(c, ConcAppId, None)
        \/ \E resp \in ConcResponses : remove_app_response(c, resp)

SpecConcurrent == Init /\ [][NextConcurrent]_vars


(* Vocabulary of the properties *)

Done(c) == pc[c] = "done"
Issued(c) == pc[c] \notin {"idle"} /\ requests[c] # <<>>

\* The operations documented to return a (value, error) pair.
PairOps == {"get_app", "get_app_versions", "get_apps", "scale_app", "suspend_app"}

\* The status an operation treats as success.
SuccessCode(op) == IF op = "add_app" THEN 201 ELSE 200

\* The field an operation reads from a success body ("" when it reads none).
ExpectedField(call) ==
    CASE call.op = "get_app" -> IF call.version = None THEN "app" ELSE ""
      [] call.op = "get_app_versions" -> "versions"
      [] call.op = "get_apps" -> "apps"
      [] call.op \in {"scale_app", "suspend_app"} -> "deploymentId"
      [] OTHER -> ""

\* The error value a finished call handed back, None when it handed back none.
ReturnedError(c) ==
    IF result[c].kind # "return" THEN None
    ELSE IF result[c].value.type = "tuple" THEN result[c].value.v[2]
    ELSE result[c].value

\* The success value of a finished pair-returning call.
ReturnedValue(c) ==
    IF result[c].kind = "return" /\ result[c].value.type = "tuple"
    THEN result[c].value.v[1]
    ELSE None

AppsUrl == "http://marathon:8080/v2/apps"

LoggedError(c) == \E i \in 1..Len(log[c]) : log[c][i].level = "error"

\* C1: every finished call of a pair-returning operation returned a pair with
\* exactly one of its two components populated, whatever the response was.
C1_ExactlyOnePopulated ==
    \A c \in Callers :
        (Done(c) /\ frame[c].op \in PairOps) =>
            /\ result[c].kind = "return"
            /\ result[c].value.type = "tuple"
            /\ (result[c].value.v[1] = None) # (result[c].value.v[2] = None)

\* C2: every finished call issued exactly one request, returned (never
\* raised), and reported success exactly when the status was its success code.
C2_StatusDecidesOutcome ==
    \A c \in Callers :
        Done(c) =>
            /\ Len(requests[c]) = 1
            /\ result[c].kind = "return"
            /\ (ReturnedError(c) = None)
                   <=> (response[c].status_code = SuccessCode(frame[c].op))

\* C3: a success-coded response lacking the expected field, and a non-success
\* response whose body is not JSON, both end in a returned generic error value.
Malformed(c) ==
    \/ /\ response[c].status_code = SuccessCode(frame[c].op)
       /\ ExpectedField(frame[c]) # ""
       /\ response[c].body.type = "dict"
       /\ ExpectedField(frame[c]) \notin DOMAIN response[c].body.v
    \/ /\ response[c].status_code # SuccessCode(frame[c].op)
       /\ response[c].body.type = "text"

C3_MalformedResponseDegrades ==
    \A c \in Callers :
        (Done(c) /\ requests[c] # <<>> /\ Malformed(c)) =>
            /\ result[c].kind = "return"
            /\ ReturnedError(c) = Error("Unknown error from Marathon")


\* A finished call whose response was a non-success status with a JSON
\* object as its body.
ErrorObject(c) ==
    /\ Done(c)
    /\ requests[c] # <<>>
    /\ response[c].status_code # SuccessCode(frame[c].op)
    /\ response[c].body.type = "dict"

HasMessage(c) == "message" \in DOMAIN response[c].body.v

\* C4 (as amended): for every operation, a non-success response whose JSON
\* object has a message field with a non-null value m yields the error message
\* "Error: " followed by m and logs no error; one with no message field, or
\* with a null one, yields "Unknown error from Marathon" and logs an error.
C4_ErrorTranslation ==
    \A c \in Callers :
        ErrorObject(c) =>
            /\ result[c].kind = "return"
            /\ ReturnedError(c).type = "Error"
            /\ (frame[c].op \in PairOps => ReturnedValue(c) = None)
            /\ IF HasMessage(c) /\ response[c].body.v["message"] # None
               THEN /\ error(ReturnedError(c))
                         = "Error: " \o response[c].body.v["message"].v
                    /\ ~LoggedError(c)
               ELSE /\ error(ReturnedError(c)) = "Unknown error from Marathon"
                    /\ LoggedError(c)

\* C4 as stated: whenever the body has a message field, whatever its value m,
\* the message is "Error: " followed by m; the generic fallback and the
\* logged anomaly occur when the field is absent.
C4_AsStated ==
    \A c \in Callers :
        ErrorObject(c) =>
            /\ result[c].kind = "return"
            /\ ReturnedError(c).type = "Error"
            /\ IF HasMessage(c)
               THEN error(ReturnedError(c))
                        = "Error: " \o str(response[c].body.v["message"])
               ELSE /\ error(ReturnedError(c)) = "Unknown error from Marathon"
                    /\ LoggedError(c)

\* A 404 carrying {"message": "App not found"} came back from a read operation
\* as the error "Error: App not found".
C4_Witness ==
    \E c \in Callers :
        /\ ErrorObject(c)
        /\ frame[c].op = "get_app_versions"
        /\ response[c] = Response(404, Dict1("message", PyStr("App not found")))
        /\ result[c].value = PyTuple(None, Error("Error: App not found"))

\* A scale, suspend or remove call that has issued its request.
ForceCall(c) ==
    /\ Issued(c)
    /\ frame[c].op \in {"scale_app", "suspend_app", "remove_app"}

PlainUrl(c) == AppsUrl \o Join(_sanitize_app_id(frame[c].app_id))

\* C5: without force (omitted or false) the URL has no query string, with
\* force it ends in exactly "?force=true"; scale_app sends PUT with the body
\* {"instances": n} and returns the deploymentId of a 200 response.
C5_ForceQueryAndScale ==
    \A c \in Callers :
        ForceCall(c) =>
            /\ requests[c][1].url =
                   IF frame[c].force = PyBool(TRUE)
                   THEN PlainUrl(c) \o "?force=true"
                   ELSE PlainUrl(c)
            /\ frame[c].op = "scale_app" =>
                   /\ requests[c][1].method = "PUT"
                   /\ requests[c][1].json = Dict1("instances", frame[c].instances)
                   /\ (/\ Done(c)
                       /\ response[c].status_code = 200
                       /\ response[c].body.type = "dict"
                       /\ "deploymentId" \in DOMAIN response[c].body.v)
                      => result[c].value
                             = PyTuple(response[c].body.v["deploymentId"], None)


\* A finished get_app_versions call on a 200 response whose body carries a
\* version list.
VersionsCall(c) ==
    /\ Done(c)
    /\ frame[c].op = "get_app_versions"
    /\ response[c].status_code = 200
    /\ response[c].body.type = "dict"
    /\ "versions" \in DOMAIN response[c].body.v
    /\ response[c].body.v["versions"].type = "list"

VersionsOf(c) == response[c].body.v["versions"].v

\* s is the prefix of L of length n.
IsPrefix(s, L, n) == n \in 0..Len(L) /\ s = SubSeq(L, 1, n)

\* C7 (as amended): with max_count None the whole list L comes back, in
\* order; with max_count >= 0 the prefix of length min(max_count, len(L));
\* with max_count < 0 the prefix of length max(len(L) + max_count, 0).
C7_VersionsPrefix ==
    \A c \in Callers :
        VersionsCall(c) =>
            LET L == VersionsOf(c)
                n == frame[c].max_count
            IN  /\ result[c].kind = "return"
                /\ ReturnedError(c) = None
                /\ ReturnedValue(c).type = "list"
                /\ IF n = None THEN ReturnedValue(c).v = L
                   ELSE IF n.v >= 0
                   THEN IsPrefix(ReturnedValue(c).v, L, Min(n.v, Len(L)))
                   ELSE IsPrefix(ReturnedValue(c).v, L, Max(Len(L) + n.v, 0))

\* C7 as stated: for any integer max_count the result is the prefix of
\* length min(max_count, len(L)).
C7_AsStated ==
    \A c \in Callers :
        VersionsCall(c) =>
            LET L == VersionsOf(c)
                n == frame[c].max_count
            IN  /\ result[c].kind = "return"
                /\ ReturnedValue(c).type = "list"
                /\ IF n = None THEN ReturnedValue(c).v = L
                   ELSE IsPrefix(ReturnedValue(c).v, L, Min(n.v, Len(L)))

\* max_count=2 on [v3, v2, v1] returned [v3, v2].
C7_Witness ==
    \E c \in Callers :
        /\ VersionsCall(c)
        /\ frame[c].max_count = PyInt(2)
        /\ VersionsOf(c) = <<PyStr("v3"), PyStr("v2"), PyStr("v1")>>
        /\ result[c].value = PyTuple(PyList(<<PyStr("v3"), PyStr("v2")>>), None)

\* C8: get_app requests v2/apps/{id} and returns the body's app field when no
\* version is given, and requests v2/apps/{id}/versions/{v} and returns the
\* whole body when version v is given.
C8_GetAppBranches ==
    \A c \in Callers :
        (Issued(c) /\ frame[c].op = "get_app") =>
            LET body == response[c].body IN
            IF frame[c].version = None
            THEN /\ requests[c] = <<Request("GET", PlainUrl(c), None)>>
                 /\ (/\ Done(c)
                     /\ response[c].status_code = 200
                     /\ body.type = "dict"
                     /\ "app" \in DOMAIN body.v)
                    => result[c].value = PyTuple(body.v["app"], None)
            ELSE /\ requests[c] =
                        <<Request("GET",
                                  PlainUrl(c) \o "/versions/" \o frame[c].version.v,
                                  None)>>
                 /\ (/\ Done(c)
                     /\ response[c].status_code = 200
                     /\ body.type # "text")
                    => result[c].value = PyTuple(body, None)

\* A versioned get_app got a body that has an app field and returned the
\* whole body, and not the field.
C8_Witness ==
    \E c \in Callers :
        /\ Done(c)
        /\ frame[c].op = "get_app"
        /\ frame[c].version # None
        /\ response[c] = Response(200, Dict1("app", PyDict(AppDescriptor)))
        /\ result[c].value = PyTuple(Dict1("app", PyDict(AppDescriptor)), None)

\* C9: suspend_app(id, force) issues the one request scale_app(id, 0, force)
\* issues (PUT, same URL, body {"instances": 0}) and returns what scale_app
\* returns on the response.
C9_SuspendIsScaleToZero ==
    \A c \in Callers :
        (Issued(c) /\ frame[c].op = "suspend_app") =>
            /\ requests[c] =
                   <<scale_app_request(client, frame[c].app_id, PyInt(0),
                                       frame[c].force)>>
            /\ requests[c][1].method = "PUT"
            /\ requests[c][1].json = Dict1("instances", PyInt(0))
            /\ Done(c) =>
                   LET r == scale_app_return(response[c])
                   IN  /\ result[c].kind = r.kind
                       /\ result[c].value = r.value
                       /\ result[c].exc = r.exc

\* A forced suspend_app came back with the deployment id of a 200 response.
C9_Witness ==
    \E c \in Callers :
        /\ Done(c)
        /\ frame[c].op = "suspend_app"
        /\ frame[c].force = PyBool(TRUE)
        /\ requests[c][1].json = Dict1("instances", PyInt(0))
        /\ response[c] = Response(200, Dict1("deploymentId", PyStr("5ed4c0c5")))
        /\ result[c].value = PyTuple(PyStr("5ed4c0c5"), None)


\* The inverse of quote: every "%XX" back to its character.
RECURSIVE Unquote(_)
Unquote(s) ==
    IF s = <<>> THEN <<>>
    ELSE IF Head(s) = "%" /\ Len(s) >= 3
    THEN LET code == SubSeq(s, 1, 3)
             ch == CHOOSE x \in {" ", "%", "?", "/", "="} : PercentEncode(x) = code
         IN  <<ch>> \o Unquote(SubSeq(s, 4, Len(s)))
    ELSE <<Head(s)>> \o Unquote(Tail(s))

HexDigits ==
    {"0", "1", "2", "3", "4", "5", "6", "7", "8", "9", "A", "B", "C", "D", "E", "F"}

HasNonSlash(id) == \E i \in 1..Len(id) : id[i] # "/"

\* What holds of _sanitize_app_id's result s on raw id `id` whether or not the
\* id has a character other than "/": one leading slash only, nothing but
\* unreserved characters, "/" and "%XX" escapes, decoding to "/" followed by
\* the id without its surrounding slashes, and unchanged by one more leading
\* or trailing slash on the id.
SanitizedShape(id, s) ==
    /\ Len(s) >= 1
    /\ s[1] = "/"
    /\ Len(s) >= 2 => s[2] # "/"
    /\ \A i \in 1..Len(s) :
           /\ s[i] \in AlwaysSafe \cup HexDigits \cup {"/", "%"}
           /\ s[i] = "%" =>
                  /\ i + 2 <= Len(s)
                  /\ s[i + 1] \in HexDigits
                  /\ s[i + 2] \in HexDigits
    /\ \E i \in 0..Len(id), j \in 0..Len(id) :
           /\ i <= j
           /\ \A k \in 1..Len(id) : (k <= i \/ k > j) => id[k] = "/"
           /\ Unquote(s) = <<"/">> \o SubSeq(id, i + 1, j)
    /\ _sanitize_app_id(<<"/">> \o id) = s
    /\ _sanitize_app_id(id \o <<"/">>) = s

\* C6 (as amended): the result begins with exactly one slash, is
\* percent-encoded and does not depend on the leading/trailing slash counts;
\* it has no trailing slash when the id has a character other than "/", and
\* is the single slash "/" when the id is empty or all slashes.
C6_Sanitize ==
    sanitized # None =>
        /\ SanitizedShape(raw_id, sanitized.v)
        /\ IF HasNonSlash(raw_id)
           THEN sanitized.v[Len(sanitized.v)] # "/"
           ELSE sanitized.v = <<"/">>

\* C6 as stated: for every id, the empty and the all-slash ones included, the
\* result has one leading slash and no trailing slash.
C6_AsStated ==
    sanitized # None =>
        /\ SanitizedShape(raw_id, sanitized.v)
        /\ sanitized.v[Len(sanitized.v)] # "/"

\* An id with a leading slash, a special character and a trailing slash.
C6_Witness ==
    /\ raw_id = <<"/", " ", "/">>
    /\ sanitized = PyStr(<<"/", "%", "2", "0">>)

\* C10: the Client keeps its host, port and URL pattern through every call of
\* every caller, and what a call requests and returns is determined by its
\* own arguments and its own response: two calls with the same arguments
\* issue the same request, and with the same response end the same way,
\* whatever ran before or in between.
C10_StatelessClient ==
    /\ client = Client(Host, Port)
    /\ \A c \in Callers, d \in Callers :
           (pc[c] # "idle" /\ pc[d] # "idle" /\ frame[c] = frame[d]) =>
               /\ requests[c] = requests[d]
               /\ (Done(c) /\ Done(d) /\ response[c] = response[d]) =>
                      (result[c] = result[d] /\ log[c] = log[d])
    /\ \A c \in Callers :
           (Issued(c) /\ frame[c].op = "get_apps") =>
               requests[c] = <<Request("GET", AppsUrl, None)>>

\* Two callers made the same call, got different responses while both were in
\* flight, and each ended with the outcome of its own response.
C10_Witness ==
    \E c \in Callers, d \in Callers :
        /\ c # d
        /\ Done(c) /\ Done(d)
        /\ frame[c] = frame[d]
        /\ frame[c].op = "scale_app"
        /\ response[c].status_code = 200
        /\ response[d].status_code = 404
        /\ result[c].value = PyTuple(PyStr("5ed4c0c5"), None)
        /\ result[d].value = PyTuple(None, Error("Error: App not found"))

====
